---- MODULE Spec2Model ----
(***************************************************************************)
(* A model of the prouter dispatch layer (router.go, group.go): route and  *)
(* middleware registration on the root router and on groups, the gorilla   *)
(* mux route tree the registrations build, and the per-request dispatch    *)
(* done by the closure makeHttpHandler returns.                            *)
(*                                                                         *)
(* Paths are sequences of segments (<<"g","x">> is /g/x).  A middleware or *)
(* handler value is a record naming who registered it and as which of its  *)
(* registrations, so two registered values are always distinguishable.     *)
(***************************************************************************)
EXTENDS Naturals, Sequences, FiniteSets

(* ---------------------------- bounds ----------------------------------- *)
\* user middlewares added to the root router
MaxGlobal == 2
\* middlewares added to one group
MaxGroupMw == 2
\* groups created with Group()
MaxGroups == 1
\* routes registered
MaxRoutes == 2
\* requests served at the same time
MaxInFlight == 2

(* ------------------------- input alphabets ----------------------------- *)
GroupPrefix == <<"g">>
RoutePath == <<"x">>
StaticPrefix == <<"s">>
FilepathVar == "{filepath}"
\* names that exist under the static root directory
Files == {"f"}
MethodGet == "GET"
\* "" is what Any() registers
\* the (method, option) pairs routes are registered with
RouteKinds == {<<MethodGet, "none">>, <<MethodGet, "header">>, <<"", "none">>}
\* a RouteOption is "none", or "header": route.Headers(...) requiring a header

StatusOK == 200
StatusNotFound == 404
StatusMethodNotAllowed == 405
StatusInternalServerError == 500

(* ------------------------ middleware values ---------------------------- *)
Mw(kind, of, idx) == [kind |-> kind, of |-> of, idx |-> idx]
NilMw == Mw("nil", 0, 0)
LogMiddleware == Mw("log", 0, 0)
RecoveryMiddleware == Mw("recovery", 0, 0)
\* the k-th middleware the application adds to the root router
GlobalMw(k) == Mw("global", 0, k)
\* the k-th middleware the application adds to group g
GroupMw(g, k) == Mw("group", g, k)
\* the handler of the n-th registered route
HandlerOf(n) == Mw("handler", 0, n)
StaticHandlerOf(n) == Mw("static", 0, n)

VARIABLES
    middlewares,              \* Prouter.middlewares: the global list
    NotFoundHandler,          \* v.router.NotFoundHandler
    MethodNotAllowedHandler,  \* v.router.MethodNotAllowedHandler
    groups,                   \* the RouterGroups; groups[1] is the root's
    arrays,                   \* backing arrays of the groups' middleware slices
    routers,                  \* the mux routers; routers[1] is the root mux router
    iroutes,                  \* the iRoutes handed to initRouter, in order
    reg,                      \* history: who registered each route, with what
    last,                     \* the last request served and its response
    host,                     \* Prouter.host
    scheme,                   \* Prouter.scheme
    given,                    \* history: the RouterOptions the router was built with
    contexts,                 \* the Context objects of the requests in flight
    inflight                  \* the requests being served concurrently

vars == <<middlewares, NotFoundHandler, MethodNotAllowedHandler, groups,
          arrays, routers, iroutes, reg, last, host, scheme, given,
          contexts, inflight>>

(* ----------------------------- Go slices -------------------------------- *)
\* A slice value is a header (backing array, len, cap); arr = 0 is the
\* zero-capacity slice make([]Middleware, 0) and the nil slice.
EmptySlice == [arr |-> 0, len |-> 0, cap |-> 0]

\* the elements a holder of header s sees
SliceElems(s) == [i \in 1..s.len |-> arrays[s.arr][i]]

\* capacity append() picks when need > cap (runtime growslice; for the
\* 16-byte interface elements every small capacity is a size class)
GrowCap(cap, need) == IF need > 2 * cap THEN need ELSE 2 * cap

\* append(s, ms...): in place when the capacity suffices, else a fresh array
AppendInPlace(s, ms) == s.len + Len(ms) <= s.cap

AppendedArray(s, ms) ==
    LET need == s.len + Len(ms)
        ncap == IF AppendInPlace(s, ms) THEN s.cap ELSE GrowCap(s.cap, need)
    IN  [i \in 1..ncap |->
            IF i <= s.len THEN arrays[s.arr][i]
            ELSE IF i <= need THEN ms[i - s.len]
            ELSE IF AppendInPlace(s, ms) THEN arrays[s.arr][i] ELSE NilMw]

AppendArrays(s, ms) ==
    IF AppendInPlace(s, ms)
    THEN [arrays EXCEPT ![s.arr] = AppendedArray(s, ms)]
    ELSE Append(arrays, AppendedArray(s, ms))

AppendHeader(s, ms) ==
    IF AppendInPlace(s, ms)
    THEN [s EXCEPT !.len = s.len + Len(ms)]
    ELSE [arr |-> Len(arrays) + 1,
          len |-> s.len + Len(ms),
          cap |-> GrowCap(s.cap, s.len + Len(ms))]

(* --------------------------- construction ------------------------------ *)
\* newGroupWithRouter(router)
newGroupWithRouter(rid) ==
    [router |-> rid, middlewares |-> EmptySlice, root |-> FALSE]

NoRequest ==
    [served |-> FALSE,
     req |-> [path |-> <<>>, method |-> "", hdr |-> FALSE,
              host |-> "", scheme |-> ""],
     route |-> 0, fault |-> Mw("nil", 0, 0),
     out |-> [resp |-> [present |-> FALSE, code |-> 0, message |-> "", data |-> "null"],
              err |-> [set |-> FALSE, text |-> ""]],
     resp |-> [present |-> FALSE, code |-> 0, message |-> "", data |-> "null"],
     err |-> [set |-> FALSE, text |-> ""],
     escaped |-> FALSE, trace |-> <<>>,
     w |-> [status |-> 0, body |-> <<>>],
     cancelled |-> FALSE, ctxDone |-> FALSE, wraps |-> 0]

\* the RouterOptions of one construction: the value given with WithHost
\* and with WithScheme ("" when the option is absent) and the handler given
\* with WithNotFoundHandler and with WithMethodNotAllowedHandler ("nil"
\* when absent, "custom" for a handler of the application)
Option(h, s, nf, mna) ==
    [host |-> h, scheme |-> s, notFound |-> nf, methodNotAllowed |-> mna]
NoOptions == Option("", "", "nil", "nil")
Options ==
    {Option(h, s, nf, mna) : h \in {"", "h"}, s \in {"", "https"},
                             nf \in {"nil", "custom"},
                             mna \in {"nil", "custom"}}

\* Prouter.parseOptions(opts...): the options run on v, whose router is the
\* root mux router: the handler options set that router's handlers.  Then
\* v.router becomes router.Host(v.host).Subrouter() when host is set and
\* router.Schemes(v.host).Subrouter() when scheme is set; a new subrouter
\* has no handlers of its own.  Yields v's fields and v.router's handlers.
parseOptions(o) ==
    LET replaced == o.host # "" \/ o.scheme # ""
    IN  [host |-> o.host, scheme |-> o.scheme,
         NotFoundHandler |-> IF replaced THEN "nil" ELSE o.notFound,
         MethodNotAllowedHandler |->
             IF replaced THEN "nil" ELSE o.methodNotAllowed]

\* no request in flight: every slot idle, no Context alive
NoContext == [used |-> FALSE, req |-> NoRequest.req]
IdleSlot ==
    [pc |-> "idle", ctx |-> 0, req |-> NoRequest.req, route |-> 0,
     out |-> NoRequest.out, w |-> NoRequest.w]
NoneInFlight ==
    /\ contexts = [c \in 1..MaxInFlight |-> NoContext]
    /\ inflight = [i \in 1..MaxInFlight |-> IdleSlot]

\* New(opts...): a root mux router, the root group, no global middleware,
\* the options applied
New(o) ==
    LET v == parseOptions(o)
    IN  /\ middlewares = <<>>
        /\ NotFoundHandler = v.NotFoundHandler
        /\ MethodNotAllowedHandler = v.MethodNotAllowedHandler
        /\ host = v.host
        /\ scheme = v.scheme
        /\ given = o
        /\ groups = <<[newGroupWithRouter(1) EXCEPT !.root = TRUE]>>
        /\ arrays = <<>>
        /\ routers = <<[prefix |-> <<>>, routes |-> <<>>]>>
        /\ iroutes = <<>>
        /\ reg = <<>>
        /\ last = NoRequest
        /\ NoneInFlight

\* mutant: only NotFoundHandler is replaced
NewProuterNotFoundOnly(o) ==
    LET v == parseOptions(o)
    IN  /\ middlewares = <<LogMiddleware, RecoveryMiddleware>>
        /\ NotFoundHandler = "notFoundHandler"
        /\ MethodNotAllowedHandler = v.MethodNotAllowedHandler
        /\ host = v.host
        /\ scheme = v.scheme
        /\ given = o
        /\ groups = <<[newGroupWithRouter(1) EXCEPT !.root = TRUE]>>
        /\ arrays = <<>>
        /\ routers = <<[prefix |-> <<>>, routes |-> <<>>]>>
        /\ iroutes = <<>>
        /\ reg = <<>>
        /\ last = NoRequest
        /\ NoneInFlight

\* NewProuter(opts...): New(opts...) plus Log and Recovery as global
\* middleware; then v.router's two handlers for match failures are set to
\* the 404 envelope handler, whatever the options had set
NewProuter(o) ==
    LET v == parseOptions(o)
    IN  /\ middlewares = <<LogMiddleware, RecoveryMiddleware>>
        /\ NotFoundHandler = "notFoundHandler"
        /\ MethodNotAllowedHandler = "notFoundHandler"
        /\ host = v.host
        /\ scheme = v.scheme
        /\ given = o
        /\ groups = <<[newGroupWithRouter(1) EXCEPT !.root = TRUE]>>
        /\ arrays = <<>>
        /\ routers = <<[prefix |-> <<>>, routes |-> <<>>]>>
        /\ iroutes = <<>>
        /\ reg = <<>>
        /\ last = NoRequest
        /\ NoneInFlight

Init == New(NoOptions) \/ NewProuter(NoOptions)

(* --------------------------- registration ------------------------------ *)
\* registration and the one-at-a-time dispatch happen while no request is
\* being served
Quiet ==
    /\ ~last.served
    /\ \A i \in 1..MaxInFlight : inflight[i].pc = "idle"

\* the user middlewares already in the global list
GlobalAdded == Cardinality({i \in 1..Len(middlewares) : middlewares[i].kind = "global"})

\* Prouter.UseMiddleware(m...): n new middlewares appended to the global list
ProuterUseMiddleware(n) ==
    /\ Quiet
    /\ GlobalAdded + n <= MaxGlobal
    /\ middlewares' = middlewares \o [k \in 1..n |-> GlobalMw(GlobalAdded + k)]
    /\ UNCHANGED <<NotFoundHandler, MethodNotAllowedHandler, groups, arrays,
                   routers, iroutes, reg, last,
                   host, scheme, given, contexts, inflight>>

\* RouterGroup.UseMiddleware(m...) on group g: n new middlewares appended
UseMiddleware(g, n) ==
    LET s  == groups[g].middlewares
        ms == [k \in 1..n |-> GroupMw(g, s.len + k)]
    IN  /\ Quiet
        /\ ~groups[g].root
        /\ s.len + n <= MaxGroupMw
        /\ arrays' = AppendArrays(s, ms)
        /\ groups' = [groups EXCEPT ![g].middlewares = AppendHeader(s, ms)]
        /\ UNCHANGED <<middlewares, NotFoundHandler, MethodNotAllowedHandler,
                       routers, iroutes, reg, last,
                       host, scheme, given, contexts, inflight>>

\* mutant: the new group starts with its parent's middleware
GroupUpToInherit(g, limit) ==
    LET rid    == groups[g].router
        newRid == Len(routers) + 1
        prefix == routers[rid].prefix \o GroupPrefix
        sub    == [sub |-> newRid, tpl |-> prefix, method |-> "",
                   opt |-> "none", handler |-> 0]
    IN  /\ Quiet
        /\ Len(groups) <= limit
        /\ routers' = Append([routers EXCEPT ![rid].routes = Append(@, sub)],
                             [prefix |-> prefix, routes |-> <<>>])
        /\ groups' = Append(groups, [newGroupWithRouter(newRid) EXCEPT
                                        !.middlewares = groups[g].middlewares])
        /\ UNCHANGED <<middlewares, NotFoundHandler, MethodNotAllowedHandler,
                       arrays, iroutes, reg, last,
                       host, scheme, given, contexts, inflight>>

\* RouterGroup.Group(prefix): a mux subrouter under the group's router, and
\* a fresh group on it; at most limit groups besides the root
GroupUpTo(g, limit) ==
    LET rid    == groups[g].router
        newRid == Len(routers) + 1
        prefix == routers[rid].prefix \o GroupPrefix
        sub    == [sub |-> newRid, tpl |-> prefix, method |-> "",
                   opt |-> "none", handler |-> 0]
    IN  /\ Quiet
        /\ Len(groups) <= limit
        /\ routers' = Append([routers EXCEPT ![rid].routes = Append(@, sub)],
                             [prefix |-> prefix, routes |-> <<>>])
        /\ groups' = Append(groups, newGroupWithRouter(newRid))
        /\ UNCHANGED <<middlewares, NotFoundHandler, MethodNotAllowedHandler,
                       arrays, iroutes, reg, last,
                       host, scheme, given, contexts, inflight>>

Group(g) == GroupUpTo(g, MaxGroups)

\* The mux route initRouter builds for iRoute r, which will be iroutes[n]:
\* router.Path(path), then Methods(method) unless the method is "", then
\* the route option, then Handler(makeHttpHandler(r))
muxRouteOf(r, n) ==
    [sub |-> 0,
     tpl |-> routers[r.router].prefix \o r.path,
     method |-> r.method,
     opt |-> r.routeOption,
     handler |-> n]

\* mutant: a new route goes in front of the router's routes
RECURSIVE initRoutersInFront(_, _, _)
initRoutersInFront(rs, rts, irs) ==
    IF rs = <<>> THEN [routers |-> rts, iroutes |-> irs]
    ELSE LET r == Head(rs)
             m == muxRouteOf(r, Len(irs) + 1)
         IN  initRoutersInFront(Tail(rs),
                                [rts EXCEPT ![r.router].routes = <<m>> \o @],
                                Append(irs, r))

\* Prouter.initRouter applied to the iRoutes rs in turn
RECURSIVE initRouters(_, _, _)
initRouters(rs, rts, irs) ==
    IF rs = <<>> THEN [routers |-> rts, iroutes |-> irs]
    ELSE LET r == Head(rs)
             m == muxRouteOf(r, Len(irs) + 1)
         IN  initRouters(Tail(rs),
                         [rts EXCEPT ![r.router].routes = Append(@, m)],
                         Append(irs, r))

\* what the registration history notes for k routes registered on group g
RegNote(g, k) ==
    [i \in 1..k |-> [group |-> g, mws |-> SliceElems(groups[g].middlewares)]]

\* the iRoute HandleRoute builds: the group's middleware slice unless root
HandleRouteIRoute(g, method, path, handler, prefix, opt) ==
    [method |-> method, path |-> path, handler |-> handler,
     prefix |-> prefix, router |-> groups[g].router,
     middleware |-> IF groups[g].root THEN EmptySlice
                    ELSE groups[g].middlewares,
     routeOption |-> opt]

\* RouterGroup.HandleRoute(method, path, handler, opts...) and, through it,
\* GET ... TRACE (method given) and Any (method "")
HandleRoute(g, method, opt) ==
    LET n  == Len(iroutes) + 1
        r  == HandleRouteIRoute(g, method, RoutePath, HandlerOf(n), <<>>, opt)
        rr == initRouters(<<r>>, routers, iroutes)
    IN  /\ Quiet
        /\ n <= MaxRoutes
        /\ routers' = rr.routers
        /\ iroutes' = rr.iroutes
        /\ reg' = reg \o RegNote(g, 1)
        /\ UNCHANGED <<middlewares, NotFoundHandler, MethodNotAllowedHandler,
                       groups, arrays, last,
                       host, scheme, given, contexts, inflight>>

\* RouterGroup.Static / StaticFS: GET path.Join(relativePath, "{filepath}")
\* handled by staticHandler(relativePath, fs)
StaticFS(g) ==
    LET n  == Len(iroutes) + 1
        r  == HandleRouteIRoute(g, MethodGet, StaticPrefix \o <<FilepathVar>>,
                                StaticHandlerOf(n), StaticPrefix, "none")
        rr == initRouters(<<r>>, routers, iroutes)
    IN  /\ Quiet
        /\ n <= MaxRoutes
        /\ routers' = rr.routers
        /\ iroutes' = rr.iroutes
        /\ reg' = reg \o RegNote(g, 1)
        /\ UNCHANGED <<middlewares, NotFoundHandler, MethodNotAllowedHandler,
                       groups, arrays, last,
                       host, scheme, given, contexts, inflight>>

\* the Routers an application hands to HandlerRouter: each a list of GET
\* routes, given here by their options ("header" is an OptRoute)
RouterInputs == {<<"header", "none">>}

\* RouterGroup.HandlerRouter(routers...): every route gets the group's
\* middleware slice, root or not
HandlerRouter(g, os) ==
    LET n  == Len(iroutes)
        rs == [k \in 1..Len(os) |->
                 [method |-> MethodGet, path |-> RoutePath,
                  handler |-> HandlerOf(n + k), prefix |-> <<>>,
                  router |-> groups[g].router,
                  middleware |-> groups[g].middlewares,
                  routeOption |-> os[k]]]
        rr == initRouters(rs, routers, iroutes)
    IN  /\ Quiet
        /\ n + Len(os) <= MaxRoutes
        /\ routers' = rr.routers
        /\ iroutes' = rr.iroutes
        /\ reg' = reg \o RegNote(g, Len(os))
        /\ UNCHANGED <<middlewares, NotFoundHandler, MethodNotAllowedHandler,
                       groups, arrays, last,
                       host, scheme, given, contexts, inflight>>

Register ==
    \/ \E n \in 1..2 : ProuterUseMiddleware(n)
    \/ \E g \in 1..Len(groups), n \in 1..2 : UseMiddleware(g, n)
    \/ \E g \in 1..Len(groups) : Group(g)
    \/ \E g \in 1..Len(groups), k \in RouteKinds : HandleRoute(g, k[1], k[2])
    \/ \E g \in 1..Len(groups) : StaticFS(g)
    \/ \E g \in 1..Len(groups), os \in RouterInputs : HandlerRouter(g, os)

(* ------------------------------ requests ------------------------------- *)
\* the path prefixes groups can have: GroupPrefix repeated 0..MaxGroups times
RECURSIVE Repeat(_, _)
Repeat(p, k) == IF k = 0 THEN <<>> ELSE p \o Repeat(p, k - 1)

ReqPaths ==
    {Repeat(GroupPrefix, k) \o t :
        k \in 0..MaxGroups,
        t \in {RoutePath, StaticPrefix \o <<"f">>, StaticPrefix \o <<"n">>}}

\* GET without and with the header a "header" option asks for, and POST
Requests ==
    {[path |-> p, method |-> m[1], hdr |-> m[2],
      host |-> "h", scheme |-> "http"] :
        p \in ReqPaths,
        m \in {<<MethodGet, FALSE>>, <<MethodGet, TRUE>>, <<"POST", TRUE>>}}

(* -------------------- responses, errors, envelopes --------------------- *)
Resp(code, message, data) ==
    [present |-> TRUE, code |-> code, message |-> message, data |-> data]
NilResp == [present |-> FALSE, code |-> 0, message |-> "", data |-> "null"]
Err(text) == [set |-> TRUE, text |-> text]
NoErr == [set |-> FALSE, text |-> ""]

\* ErrorResponse(code, msg): a Response carrying code and message, no data
ErrorResponse(code, msg) == Resp(code, msg, "null")

\* what a handler returns
Outcome(resp, err) == [resp |-> resp, err |-> err]
NilOutcome == Outcome(NilResp, NoErr)

\* the outcomes the handlers of Spec produce
Outcomes ==
    {Outcome(Resp(201, "created", "d"), NoErr),
     Outcome(NilResp, Err("e"))}

\* the outcomes normalization is checked on
ResultCodes == {0, StatusOK, 201, StatusNotFound}
AllOutcomes ==
    {Outcome(r, e) :
        r \in {NilResp} \cup {Resp(c, m, d) : c \in ResultCodes,
                                             m \in {"", "msg"},
                                             d \in {"null", "d"}},
        e \in {NoErr, Err("e")}}

\* mutant: only code 200 is replaced by 500, and a present result's
\* message is used even when it is empty
packResponseTmplLoose(resp, err) ==
    LET data  == IF ~resp.present THEN "null" ELSE resp.data
        code0 == IF ~resp.present THEN StatusOK ELSE resp.code
        msg   == IF err.set
                 THEN IF ~resp.present THEN err.text ELSE resp.message
                 ELSE ""
        code  == IF err.set /\ code0 = StatusOK
                 THEN StatusInternalServerError ELSE code0
    IN  [status |-> code,
         ret |-> [code |-> code, message |-> msg, data |-> data]]

\* Prouter.packResponseTmpl(resp, err): the status and the envelope
packResponseTmpl(resp, err) ==
    LET data  == IF ~resp.present THEN "null" ELSE resp.data
        code0 == IF ~resp.present THEN StatusOK ELSE resp.code
        msg   == IF err.set
                 THEN IF ~resp.present \/ resp.message = ""
                      THEN err.text ELSE resp.message
                 ELSE ""
        code  == IF err.set /\ (code0 = 0 \/ code0 = StatusOK)
                 THEN StatusInternalServerError ELSE code0
    IN  [status |-> code,
         ret |-> [code |-> code, message |-> msg, data |-> data]]

(* -------------------------- response writer ---------------------------- *)
\* status 0: no header written yet; body: what was written, in order
NewWriter == [status |-> 0, body |-> <<>>]

\* http.ResponseWriter.WriteHeader: only the first call sets the status
WriteHeader(w, status) ==
    IF w.status = 0 THEN [w EXCEPT !.status = status] ELSE w

Chunk(kind, code, message, data) ==
    [kind |-> kind, code |-> code, message |-> message, data |-> data]

\* WriteJSON(w, status, v): the status, then v as one JSON envelope
WriteJSON(w, status, v) ==
    [WriteHeader(w, status) EXCEPT
        !.body = Append(@, Chunk("envelope", v.code, v.message, v.data))]

\* http.FileServer(fs).ServeHTTP on the path p left after the prefix
FileServer(w, p) ==
    IF Len(p) = 1 /\ p[1] \in Files
    THEN [WriteHeader(w, StatusOK) EXCEPT
            !.body = Append(@, Chunk("file", 0, p[1], "null"))]
    ELSE [WriteHeader(w, StatusNotFound) EXCEPT
            !.body = Append(@, Chunk("text", 0, "404 page not found", "null"))]

\* the handler NewProuter installs for match failures
notFoundHandler(w) ==
    LET e == ErrorResponse(StatusNotFound, "page not found")
    IN  WriteJSON(w, StatusNotFound, e)

\* a handler of the application given with WithNotFoundHandler or
\* WithMethodNotAllowedHandler: it writes its own answer
customHandler(w) ==
    [WriteHeader(w, StatusNotFound) EXCEPT
        !.body = Append(@, Chunk("custom", 0, "", "null"))]

\* mux's handlers when the router has none of its own
muxNotFound(w) ==
    [WriteHeader(w, StatusNotFound) EXCEPT
        !.body = Append(@, Chunk("text", 0, "404 page not found", "null"))]
muxMethodNotAllowed(w) ==
    [WriteHeader(w, StatusMethodNotAllowed) EXCEPT !.body = @]

(* ----------------------------- matching -------------------------------- *)
HasPrefix(path, prefix) ==
    /\ Len(prefix) <= Len(path)
    /\ \A i \in 1..Len(prefix) : path[i] = prefix[i]

\* strings.TrimPrefix
TrimPrefix(path, prefix) ==
    IF HasPrefix(path, prefix)
    THEN SubSeq(path, Len(prefix) + 1, Len(path)) ELSE path

\* a template segment matches itself; a {variable} matches any one segment
SegMatches(t, s) == t = s \/ t = FilepathVar

PathMatches(tpl, path) ==
    /\ Len(tpl) = Len(path)
    /\ \A i \in 1..Len(tpl) : SegMatches(tpl[i], path[i])

PathPrefixMatches(tpl, path) ==
    /\ Len(tpl) <= Len(path)
    /\ \A i \in 1..Len(tpl) : SegMatches(tpl[i], path[i])

MethodMatches(m, req) == m = "" \/ m = req.method
OptionMatches(o, req) == o = "none" \/ req.hdr

\* the matchers every route under v.router inherits from it (parseOptions):
\* Host(v.host) when host is set, Schemes(v.host) when scheme is set.  The
\* scheme a request is matched on is "http" or "https".
HostMatches(req) == host = "" \/ req.host = host
SchemeMatches(req) == scheme = "" \/ req.scheme = host

\* mux Router.Match from route i of router rid on: the routes are tried in
\* the order they were added, a subrouter's routes in place of its route;
\* handler 0 is no match, mismatch tells a route failed on the method alone
RECURSIVE Match(_, _, _, _)
Match(rid, i, req, mismatch) ==
    IF i > Len(routers[rid].routes)
    THEN [handler |-> 0, mismatch |-> mismatch]
    ELSE LET rt == routers[rid].routes[i]
         IN  IF rt.sub # 0
             THEN IF PathPrefixMatches(rt.tpl, req.path)
                  THEN LET in == Match(rt.sub, 1, req, mismatch)
                       IN  IF in.handler # 0 THEN in
                           ELSE Match(rid, i + 1, req, in.mismatch)
                  ELSE Match(rid, i + 1, req, mismatch)
             ELSE IF ~(HostMatches(req) /\ SchemeMatches(req))
                  THEN Match(rid, i + 1, req, mismatch)
             ELSE IF ~PathMatches(rt.tpl, req.path)
                  THEN Match(rid, i + 1, req, mismatch)
             ELSE IF ~OptionMatches(rt.opt, req)
                  THEN Match(rid, i + 1, req, mismatch)
             ELSE IF ~MethodMatches(rt.method, req)
                  THEN Match(rid, i + 1, req, TRUE)
             ELSE [handler |-> rt.handler, mismatch |-> FALSE]

(* ------------------------- handler composition ------------------------- *)
\* A composed handler is the sequence of its layers, outermost first, the
\* route's handler last.  Middleware.WrapHandler(h): m around h
WrapHandler(m, h) == <<m>> \o h

\* for _, m := range slices.Backward(ms) { h = m.WrapHandler(h) }
RECURSIVE WrapBackward(_, _, _)
WrapBackward(ms, i, h) ==
    IF i = 0 THEN h ELSE WrapBackward(ms, i - 1, WrapHandler(ms[i], h))

\* mutant: the last global middleware is wrapped a second time
handleGlobalMiddlewareTwice(h) ==
    IF middlewares = <<>> THEN h
    ELSE WrapBackward(middlewares, Len(middlewares),
                      WrapHandler(middlewares[Len(middlewares)], h))

\* Prouter.handleGlobalMiddleware(handler)
handleGlobalMiddleware(h) == WrapBackward(middlewares, Len(middlewares), h)

\* mutant: the route reads its group's list as it is now
iRouteMiddlewareLive(ir) ==
    LET g == CHOOSE x \in 1..Len(groups) : groups[x].router = ir.router
    IN  IF ir.middleware = EmptySlice /\ groups[g].root THEN <<>>
        ELSE SliceElems(groups[g].middlewares)

\* the middleware slice an iRoute holds, as the route sees it
iRouteMiddleware(ir) == SliceElems(ir.middleware)

\* iRoute.handleSpecifyMiddleware(handler)
handleSpecifyMiddleware(ir, h) ==
    WrapBackward(iRouteMiddleware(ir), Len(iRouteMiddleware(ir)), h)

\* the handler the closure of makeHttpHandler(wr) invokes
EffectiveHandler(ir) ==
    handleSpecifyMiddleware(ir, handleGlobalMiddleware(<<ir.handler>>))

(* ----------------------------- execution ------------------------------- *)
Event(ev, who) == [ev |-> ev, who |-> who]

\* what a call of a layer yields: the returned pair, or a panic on its way
\* up; the layers entered and left; the response writer afterwards
Result(resp, err, panicked, trace, w) ==
    [resp |-> resp, err |-> err, panicked |-> panicked, trace |-> trace, w |-> w]

\* the handler staticHandler(prefix, fs) returns, called for request req
staticHandler(prefix, req, w) ==
    LET p == TrimPrefix(req.path, prefix)
    IN  IF Len(p) < Len(req.path)
        THEN Result(NilResp, NoErr, FALSE, <<>>, FileServer(w, p))
        ELSE Result(ErrorResponse(StatusNotFound, "page not found"),
                    Err("page not found"), FALSE, <<>>, w)

\* NewRecoveryMiddleware: a panic of the inner chain becomes (nil, error)
recovered(inner) ==
    Result(NilResp, Err("internal error"), FALSE, inner.trace, inner.w)

\* handlerFunc.Handle(ctx) of layer i of the composed handler h.  cx is the
\* call: the request, the iRoute, what the route's handler returns (out) and
\* the layer that panics when entered (fault, NilMw for none).  The layers
\* the application supplies call the next layer and return what it returns.
RECURSIVE Handle(_, _, _, _)
Handle(h, i, cx, w) ==
    LET m     == h[i]
        enter == <<Event("enter", m)>>
        exit  == <<Event("exit", m)>>
    IN  IF cx.fault = m
        THEN Result(NilResp, NoErr, TRUE, enter, w)
        ELSE IF i = Len(h)
        THEN LET r == IF m.kind = "static"
                      THEN staticHandler(cx.ir.prefix, cx.req, w)
                      ELSE Result(cx.out.resp, cx.out.err, FALSE, <<>>, w)
             IN  [r EXCEPT !.trace = enter \o exit]
        ELSE LET inner == Handle(h, i + 1, cx, w)
             IN  IF ~inner.panicked
                 THEN [inner EXCEPT !.trace = enter \o @ \o exit]
                 ELSE IF m.kind = "recovery"
                 THEN [recovered(inner) EXCEPT !.trace = enter \o @ \o exit]
                 ELSE [inner EXCEPT !.trace = enter \o @]

\* c := plog.With(context.Background(), ...): the context every Context of
\* the route embeds descends from the background context, made once when
\* the route is registered
HandlerContext == "background"

\* whether Done() of a context with that ancestor is closed once the
\* request was cancelled or its deadline passed: the background context is
\* never cancelled, the request's context is
ContextDone(ancestor, cancel) == ancestor = "request" /\ cancel

\* what serving one request did: the chain's result r, the response writer
\* in the end, the WrapHandler calls made, what ctx.Done() told the chain
Dispatch(r, w, wraps, done) ==
    [resp |-> r.resp, err |-> r.err, panicked |-> r.panicked,
     trace |-> r.trace, w |-> w, wraps |-> wraps, ctxDone |-> done]

\* mutant: the global middleware is not applied
makeHttpHandlerNoGlobal(ir, req, fault, out, cancel) ==
    LET cx == [req |-> req, ir |-> ir, fault |-> fault, out |-> out]
        h  == handleSpecifyMiddleware(ir, <<ir.handler>>)
        r  == Handle(h, 1, cx, NewWriter)
        pk == packResponseTmpl(r.resp, r.err)
        dn == ContextDone(HandlerContext, cancel)
    IN  IF r.panicked
        THEN Dispatch(r, r.w, Len(h) - 1, dn)
        ELSE Dispatch(r, WriteJSON(r.w, pk.status, pk.ret), Len(h) - 1, dn)

\* mutant: an error is written at once and the common write follows
makeHttpHandlerDoubleWrite(ir, req, fault, out, cancel) ==
    LET cx == [req |-> req, ir |-> ir, fault |-> fault, out |-> out]
        h0 == handleGlobalMiddleware(<<ir.handler>>)
        h  == handleSpecifyMiddleware(ir, h0)
        r  == Handle(h, 1, cx, NewWriter)
        pk == packResponseTmpl(r.resp, r.err)
        w1 == IF r.err.set THEN WriteJSON(r.w, pk.status, pk.ret) ELSE r.w
        dn == ContextDone(HandlerContext, cancel)
    IN  IF r.panicked
        THEN Dispatch(r, r.w, Len(h) - 1, dn)
        ELSE Dispatch(r, WriteJSON(w1, pk.status, pk.ret), Len(h) - 1, dn)

\* the closure makeHttpHandler(wr) returns, serving one request: compose,
\* call, normalize, write.  A panic that reaches it escapes: nothing more
\* is written.
makeHttpHandler(ir, req, fault, out, cancel) ==
    LET cx == [req |-> req, ir |-> ir, fault |-> fault, out |-> out]
        h0 == handleGlobalMiddleware(<<ir.handler>>)
        h  == handleSpecifyMiddleware(ir, h0)
        r  == Handle(h, 1, cx, NewWriter)
        pk == packResponseTmpl(r.resp, r.err)
        dn == ContextDone(HandlerContext, cancel)
    IN  IF r.panicked
        THEN Dispatch(r, r.w, Len(h) - 1, dn)
        ELSE Dispatch(r, WriteJSON(r.w, pk.status, pk.ret), Len(h) - 1, dn)

\* the response to a request no route matches
NoMatch(mismatch) ==
    LET hd == IF mismatch THEN MethodNotAllowedHandler ELSE NotFoundHandler
        w  == IF hd = "notFoundHandler" THEN notFoundHandler(NewWriter)
              ELSE IF hd = "custom" THEN customHandler(NewWriter)
              ELSE IF mismatch THEN muxMethodNotAllowed(NewWriter)
              ELSE muxNotFound(NewWriter)
    IN  Dispatch(Result(NilResp, NoErr, FALSE, <<>>, w), w, 0, FALSE)

\* the layers of a composed handler the application wrote
UserLayers(h) == {h[i] : i \in {j \in 1..Len(h) : h[j].kind \notin {"log", "recovery"}}}

\* what last holds after a request
Served(req, route, fault, out, cancel, r) ==
    [served |-> TRUE, req |-> req, route |-> route, fault |-> fault,
     out |-> out, resp |-> r.resp, err |-> r.err, escaped |-> r.panicked,
     trace |-> r.trace, w |-> r.w,
     cancelled |-> cancel, ctxDone |-> r.ctxDone, wraps |-> r.wraps]

\* Prouter.ServeHTTP(w, r): match, then the matched route's closure or the
\* handler for the match failure.  fault and out are what the application's
\* layers do on this request (out one of outs); they are only drawn where
\* they are used.  cancel: the request is cancelled, or its deadline
\* passes, while the chain is running.
ServeHTTP(req, fault, out, outs, cancel) ==
    LET m == Match(1, 1, req, FALSE)
    IN  /\ Quiet
        /\ IF m.handler = 0
           THEN /\ fault = NilMw
                /\ out = NilOutcome
                /\ ~cancel
                /\ last' = Served(req, 0, fault, out, cancel,
                                  NoMatch(m.mismatch))
           ELSE LET ir == iroutes[m.handler]
                IN  /\ fault \in {NilMw} \cup UserLayers(EffectiveHandler(ir))
                    /\ IF fault # NilMw \/ ir.handler.kind = "static"
                       THEN out = NilOutcome ELSE out \in outs
                    /\ last' = Served(req, m.handler, fault, out, cancel,
                                      makeHttpHandler(ir, req, fault, out,
                                                      cancel))
        /\ UNCHANGED <<middlewares, NotFoundHandler, MethodNotAllowedHandler,
                       groups, arrays, routers, iroutes, reg,
                       host, scheme, given, contexts, inflight>>

\* the transport takes the response; the router is ready for the next call
Done ==
    /\ last.served
    /\ last' = NoRequest
    /\ UNCHANGED <<middlewares, NotFoundHandler, MethodNotAllowedHandler,
                   groups, arrays, routers, iroutes, reg,
                   host, scheme, given, contexts, inflight>>

\* every middleware value there is
AllMw ==
    {NilMw} \cup {GlobalMw(k) : k \in 1..MaxGlobal}
            \cup {GroupMw(g, k) : g \in 1..(MaxGroups + 1), k \in 1..MaxGroupMw}
            \cup {HandlerOf(n) : n \in 1..MaxRoutes}
            \cup {StaticHandlerOf(n) : n \in 1..MaxRoutes}

Serve ==
    \E req \in Requests, fault \in AllMw, out \in Outcomes \cup {NilOutcome} :
        ServeHTTP(req, fault, out, Outcomes, FALSE)

Next == Register \/ Serve \/ Done

Spec == Init /\ [][Next]_vars

(* ------------- normalization: every handler outcome, no panic ---------- *)
RegisterNorm == \E k \in RouteKinds : HandleRoute(1, k[1], k[2])

ServeNorm ==
    \E req \in Requests, out \in AllOutcomes :
        ServeHTTP(req, NilMw, out, AllOutcomes, FALSE)

NextNorm == RegisterNorm \/ ServeNorm \/ Done

SpecNorm == Init /\ [][NextNorm]_vars

(* ------------- cancellation while the chain is running ----------------- *)
ServeCancel ==
    \E req \in Requests, out \in Outcomes \cup {NilOutcome},
       cancel \in BOOLEAN :
        ServeHTTP(req, NilMw, out, Outcomes, cancel)

NextCancel == RegisterNorm \/ ServeCancel \/ Done

SpecCancel == Init /\ [][NextCancel]_vars

(* ------------- construction options: host, scheme, handlers ------------ *)
InitOpt == \E o \in Options : New(o) \/ NewProuter(o)

\* requests to two hosts over both schemes, for a path with a route and
\* for one without
OptRequests ==
    {[path |-> p, method |-> m, hdr |-> TRUE, host |-> h, scheme |-> s] :
        p \in {RoutePath, <<"y">>}, m \in {MethodGet, "POST"},
        h \in {"h", "o"}, s \in {"http", "https"}}

ServeOpt ==
    \E req \in OptRequests, out \in Outcomes \cup {NilOutcome} :
        ServeHTTP(req, NilMw, out, Outcomes, FALSE)

NextOpt == RegisterNorm \/ ServeOpt \/ Done

SpecOpt == InitOpt /\ [][NextOpt]_vars

(* ------------- requests served concurrently ---------------------------- *)
\* The server calls ServeHTTP on a goroutine of its own for every request.
\* A request in slot i goes through the closure of makeHttpHandler in three
\* steps other requests' steps may fall between: the Context is built, the
\* chain runs and the envelope is written, the call returns.

\* the Context the closure builds for request req
Context(req) == [used |-> TRUE, req |-> req]

\* mutant: one Context per route, made when the closure is made
NewContextPerRoute(n) == ((n - 1) % MaxInFlight) + 1

\* ctx := &Context{...} in the closure serving route n: a new object
NewContext(n) == CHOOSE c \in 1..MaxInFlight : ~contexts[c].used

ConcRequests ==
    {[path |-> p, method |-> MethodGet, hdr |-> FALSE, host |-> "h",
      scheme |-> "http"] :
        p \in {RoutePath, StaticPrefix \o <<"f">>, StaticPrefix \o <<"n">>}}

\* the closure is entered for req: the Context is built
BeginRequest(i, req, out) ==
    LET m == Match(1, 1, req, FALSE)
    IN  /\ ~last.served
        /\ inflight[i].pc = "idle"
        /\ m.handler # 0
        /\ IF iroutes[m.handler].handler.kind = "static"
           THEN out = NilOutcome ELSE out \in Outcomes
        /\ LET c == NewContext(m.handler)
           IN  /\ contexts' = [contexts EXCEPT ![c] = Context(req)]
               /\ inflight' = [inflight EXCEPT ![i] =
                      [pc |-> "running", ctx |-> c, req |-> req,
                       route |-> m.handler, out |-> out, w |-> NewWriter]]
        /\ UNCHANGED <<middlewares, NotFoundHandler, MethodNotAllowedHandler,
                       groups, arrays, routers, iroutes, reg, last,
                       host, scheme, given>>

\* the chain is composed and run on the request the Context holds, and the
\* envelope is written to this request's response writer
RunChain(i) ==
    LET sl == inflight[i]
        r  == makeHttpHandler(iroutes[sl.route], contexts[sl.ctx].req, NilMw,
                              sl.out, FALSE)
    IN  /\ sl.pc = "running"
        /\ inflight' = [inflight EXCEPT ![i] =
               [sl EXCEPT !.pc = "written", !.w = r.w]]
        /\ UNCHANGED <<middlewares, NotFoundHandler, MethodNotAllowedHandler,
                       groups, arrays, routers, iroutes, reg, last,
                       host, scheme, given, contexts>>

\* the closure returns: the Context is garbage
EndRequest(i) ==
    LET sl == inflight[i]
    IN  /\ sl.pc = "written"
        /\ contexts' = [contexts EXCEPT ![sl.ctx] = NoContext]
        /\ inflight' = [inflight EXCEPT ![i] = IdleSlot]
        /\ UNCHANGED <<middlewares, NotFoundHandler, MethodNotAllowedHandler,
                       groups, arrays, routers, iroutes, reg, last,
                       host, scheme, given>>

RegisterConc ==
    \/ ProuterUseMiddleware(1)
    \/ HandleRoute(1, MethodGet, "none")
    \/ StaticFS(1)

ServeConc ==
    \/ \E i \in 1..MaxInFlight, req \in ConcRequests,
          out \in Outcomes \cup {NilOutcome} : BeginRequest(i, req, out)
    \/ \E i \in 1..MaxInFlight : RunChain(i)
    \/ \E i \in 1..MaxInFlight : EndRequest(i)

NextConc == RegisterConc \/ ServeConc

SpecConc == Init /\ [][NextConc]_vars

(* ------------- the group tree: parents, siblings, children ------------- *)
\* one group more than MaxGroups, so that a group can have a sibling or a
\* child; plain GET routes, requests down to the deepest group
TreeGroups == MaxGroups + 1

TreeRequests ==
    {[path |-> Repeat(GroupPrefix, k) \o RoutePath, method |-> MethodGet,
      hdr |-> FALSE, host |-> "h", scheme |-> "http"] : k \in 0..TreeGroups}

GroupTree == \E g \in 1..Len(groups) : GroupUpTo(g, TreeGroups)

UseMiddlewareTree ==
    \/ ProuterUseMiddleware(1)
    \/ \E g \in 1..Len(groups), n \in 1..2 : UseMiddleware(g, n)

RouteTree == \E g \in 1..Len(groups) : HandleRoute(g, MethodGet, "none")

ServeTree ==
    \E req \in TreeRequests, out \in Outcomes :
        ServeHTTP(req, NilMw, out, Outcomes, FALSE)

NextTree == GroupTree \/ UseMiddlewareTree \/ RouteTree \/ ServeTree \/ Done

SpecTree == Init /\ [][NextTree]_vars

(* ======================================================================= *)
(*                              properties                                 *)
(* ======================================================================= *)
A == GlobalMw(1)
B == GlobalMw(2)
\* the first non-root group is groups[2]
C == GroupMw(2, 1)
D == GroupMw(2, 2)

Range(f) == {f[i] : i \in DOMAIN f}

\* entering the layers in order and leaving them in reverse order
StackTrace(layers) ==
    LET n == Len(layers)
    IN  [i \in 1..(2 * n) |->
            IF i <= n THEN Event("enter", layers[i])
            ELSE Event("exit", layers[2 * n + 1 - i])]

\* a request was served by a registered route
Dispatched == last.served /\ last.route # 0

\* the layers of kind k entered while serving the last request, in order
EnteredOfKind(kinds) ==
    LET Is(e) == e.ev = "enter" /\ e.who.kind \in kinds
        sel   == SelectSeq(last.trace, Is)
    IN  [i \in 1..Len(sel) |-> sel[i].who]

\* the envelopes written to the last response
Envelopes ==
    LET IsEnv(c) == c.kind = "envelope"
    IN  SelectSeq(last.w.body, IsEnv)

BuiltWithNewProuter ==
    /\ Len(middlewares) >= 2
    /\ middlewares[1] = LogMiddleware
    /\ middlewares[2] = RecoveryMiddleware

RecoveryInstalled == RecoveryMiddleware \in Range(middlewares)

\* iRoute n matches the request: its full template, its method, its option
RouteAccepts(n, req) ==
    /\ PathMatches(routers[iroutes[n].router].prefix \o iroutes[n].path, req.path)
    /\ MethodMatches(iroutes[n].method, req)
    /\ OptionMatches(iroutes[n].routeOption, req)

(* ------------------------------- C1 ------------------------------------ *)
\* C1: with global middleware [A,B] and group middleware [C,D] registered
\* before the route, a dispatched request enters A, B, C, D, handler and
\* leaves handler, D, C, B, A.
C1_GlobalOutermostOrder ==
    (/\ Dispatched
     /\ last.fault = NilMw
     /\ reg[last.route].group # 1
     /\ middlewares = <<A, B>>
     /\ reg[last.route].mws = <<C, D>>)
    => last.trace = StackTrace(<<A, B, C, D, iroutes[last.route].handler>>)

(* ------------------------------- C2 ------------------------------------ *)
\* C2: the group middleware run for a route of a non-root group is exactly
\* the group's middleware sequence at the moment the route was registered;
\* a middleware added to the group later is never invoked for it.
C2_SnapshotAtRegistration ==
    (Dispatched /\ reg[last.route].group # 1)
    => /\ \A i \in 1..Len(last.trace) :
             last.trace[i].who.kind = "group"
                => last.trace[i].who \in Range(reg[last.route].mws)
       /\ last.fault = NilMw
             => EnteredOfKind({"group"}) = reg[last.route].mws

\* a route registered under [C] is dispatched after D joined the group,
\* which a second route shares
C2_Witness ==
    /\ Dispatched
    /\ last.fault = NilMw
    /\ reg[last.route].group = 2
    /\ reg[last.route].mws = <<C>>
    /\ SliceElems(groups[2].middlewares) = <<C, D>>
    /\ Len(iroutes) = 2
    /\ reg[1].group = 2 /\ reg[2].group = 2

(* ------------------------------- C3 ------------------------------------ *)
\* C3: when the route's handler panics, a globally registered recovery
\* middleware turns it into exactly one envelope with code and status 500
\* and the panic does not escape; without a recovery middleware the panic
\* escapes the dispatch core and no envelope is written.
C3_HandlerPanic ==
    (Dispatched /\ last.fault = iroutes[last.route].handler)
    => IF RecoveryInstalled
       THEN /\ ~last.escaped
            /\ Len(Envelopes) = 1
            /\ Envelopes[1].code = StatusInternalServerError
            /\ last.w.status = StatusInternalServerError
       ELSE /\ last.escaped
            /\ Envelopes = <<>>

C3_Witness ==
    /\ Dispatched
    /\ BuiltWithNewProuter
    /\ last.fault = iroutes[last.route].handler
    /\ last.w.status = StatusInternalServerError
    /\ ~last.escaped

(* ------------------------------- C4 ------------------------------------ *)
\* C4: with a recovery middleware registered globally, a panic of a
\* group-local middleware of the dispatched route does not escape and the
\* request ends with a 500 envelope.
C4_GroupPanicContained ==
    (Dispatched /\ RecoveryInstalled /\ last.fault.kind = "group")
    => /\ ~last.escaped
       /\ Len(Envelopes) = 1
       /\ Envelopes[1].code = StatusInternalServerError
       /\ last.w.status = StatusInternalServerError

(* ------------------------------- C5 ------------------------------------ *)
\* the handler of the dispatched route returned: no layer panicked and the
\* handler is not the static file handler
HandlerReturned ==
    /\ Dispatched
    /\ last.fault = NilMw
    /\ iroutes[last.route].handler.kind = "handler"

\* C5: with a non-nil error the envelope's message is the result's message
\* when the result is present and the message non-empty, else the error's
\* text; its code is the result's code when present and neither 0 nor 200,
\* else 500.
C5_NormalizeError ==
    (HandlerReturned /\ last.out.err.set)
    => /\ Len(Envelopes) = 1
       /\ Envelopes[1].message =
             (IF last.out.resp.present /\ last.out.resp.message # ""
              THEN last.out.resp.message ELSE last.out.err.text)
       /\ Envelopes[1].code =
             (IF last.out.resp.present /\ last.out.resp.code \notin {0, StatusOK}
              THEN last.out.resp.code ELSE StatusInternalServerError)

\* a present result with code 0 and an empty message, returned with an error
C5_Witness ==
    /\ HandlerReturned
    /\ last.out.err.set
    /\ last.out.resp.present
    /\ last.out.resp.code = 0
    /\ last.out.resp.message = ""
    /\ Envelopes[1].code = StatusInternalServerError

(* ------------------------------- C6 ------------------------------------ *)
\* C6: with a nil error the envelope's message is the result's message and
\* its code the result's code; an absent result gives code 200 and an empty
\* message.
C6_NormalizeNilError ==
    (HandlerReturned /\ ~last.out.err.set)
    => /\ Len(Envelopes) = 1
       /\ Envelopes[1].message =
             (IF last.out.resp.present THEN last.out.resp.message ELSE "")
       /\ Envelopes[1].code =
             (IF last.out.resp.present THEN last.out.resp.code ELSE StatusOK)

(* ------------------------------- C7 ------------------------------------ *)
\* C7: a request whose handler chain returns without an escaping panic gets
\* exactly one envelope; so does a request matching no route on a
\* NewProuter router; no request gets two.
C7_OneEnvelope ==
    last.served
    => /\ Len(Envelopes) <= 1
       /\ (last.route # 0 /\ ~last.escaped) => Len(Envelopes) = 1
       /\ (last.route = 0 /\ BuiltWithNewProuter) => Len(Envelopes) = 1

\* global and group layers, four or more, around a handler that returned
\* an error
C7_Witness ==
    /\ Dispatched
    /\ ~last.escaped
    /\ last.err.set
    /\ Len(EnteredOfKind({"group"})) >= 1
    /\ Len(last.trace) >= 10
    /\ Len(Envelopes) = 1

(* ------------------------------- C8 ------------------------------------ *)
\* C8: for every request that produces an envelope the HTTP status sent
\* equals the envelope's code, static-file routes included.
C8_StatusIsEnvelopeCode ==
    (last.served /\ Len(Envelopes) >= 1)
    => last.w.status = Envelopes[1].code

(* ------------------------------- C9 ------------------------------------ *)
\* C9: on a NewProuter router a request no registered route accepts
\* (unknown path, other method, failed option) gets the 404 envelope with
\* status 404 and message "page not found", and no handler or middleware
\* is invoked.
C9_NotFoundEnvelope ==
    (/\ last.served
     /\ BuiltWithNewProuter
     /\ \A n \in 1..Len(iroutes) : ~RouteAccepts(n, last.req))
    => /\ last.route = 0
       /\ last.trace = <<>>
       /\ last.w = [status |-> StatusNotFound,
                    body |-> <<Chunk("envelope", StatusNotFound,
                                     "page not found", "null")>>]

\* a route has the path but was registered for another method
C9_Witness ==
    /\ last.served
    /\ BuiltWithNewProuter
    /\ last.route = 0
    /\ \E n \in 1..Len(iroutes) :
          /\ PathMatches(routers[iroutes[n].router].prefix \o iroutes[n].path,
                         last.req.path)
          /\ OptionMatches(iroutes[n].routeOption, last.req)
          /\ ~MethodMatches(iroutes[n].method, last.req)
    /\ last.w.status = StatusNotFound

(* ------------------------------- C10 ----------------------------------- *)
\* routes i < j registered on the same group for the same method and path
SamePattern(i, j) ==
    /\ i < j
    /\ reg[i].group = reg[j].group
    /\ iroutes[i].method = iroutes[j].method
    /\ iroutes[i].path = iroutes[j].path

C12_GroupMiddlewareOwnOnly ==
    /\ \A i \in 1..Len(middlewares) : middlewares[i].kind # "group"
    /\ \A g \in 1..Len(groups) :
          \A m \in Range(SliceElems(groups[g].middlewares)) :
              m.kind = "group" /\ m.of = g
    /\ Dispatched =>
          \A i \in 1..Len(last.trace) :
              last.trace[i].who.kind = "group"
                 => last.trace[i].who.of = reg[last.route].group

\* a route of a child group is dispatched and runs the child's middleware
\* while the parent group has middleware of its own
C12_Witness ==
    /\ Dispatched
    /\ Len(groups) = 3
    /\ reg[last.route].group = 3
    /\ routers[groups[3].router].prefix = GroupPrefix \o GroupPrefix
    /\ groups[2].middlewares.len > 0
    /\ Len(EnteredOfKind({"group"})) > 0

(* ------------------------------- C13 ----------------------------------- *)
\* C13: when the request is cancelled, or its deadline passes, while the
\* handler chain is running, the Context the chain was handed is cancelled
\* as well; the chain still runs to its end and its envelope is written.
C13_ContextCarriesCancellation ==
    (Dispatched /\ last.cancelled)
    => /\ last.ctxDone
       /\ ~last.escaped => Len(Envelopes) = 1

(* ------------------------------- C15 ----------------------------------- *)
\* the last request went to a static mount and named file f
StaticRequest(f) ==
    /\ Dispatched
    /\ last.fault = NilMw
    /\ iroutes[last.route].handler.kind = "static"
    /\ last.req.path[Len(last.req.path)] = f

\* C15: a GET under a static mount for a name that is no servable file
\* gets the 404 envelope (code 404, status 404) and nothing else: no body
\* of the file server reaches the client.
C15_StaticMissingIs404Envelope ==
    (\E f \in {"f", "n"} \ Files : StaticRequest(f))
    => /\ last.w.status = StatusNotFound
       /\ Len(last.w.body) = 1
       /\ last.w.body[1].kind = "envelope"
       /\ last.w.body[1].code = StatusNotFound

(* ------------------------------- C16 ----------------------------------- *)
\* C16: the effective handler of a route is composed at most once and
\* reused: dispatching a request makes no WrapHandler call.
C16_NoWrapOnDispatch ==
    Dispatched => last.wraps = 0

(* ------------------------------- C18 ----------------------------------- *)
\* C18: a static mount on a non-root group serves a file that exists: the
\* request for group prefix + mount prefix + file name gets the file and
\* not the "page not found" error.
C18_GroupStaticServesFile ==
    (\E f \in Files : StaticRequest(f) /\ reg[last.route].group # 1)
    => /\ \E i \in 1..Len(last.w.body) : last.w.body[i].kind = "file"
       /\ \A i \in 1..Len(last.w.body) :
             last.w.body[i].message # "page not found"

(* ------------------------------- C17 ----------------------------------- *)
\* C17: a handler given with WithNotFoundHandler (WithMethodNotAllowedHandler)
\* stays in effect after NewProuter(...) and after New(...), with or without
\* WithHost: a request no route matches (matches but for the method) is
\* answered by that handler.
C17_CustomHandlersStay ==
    (last.served /\ last.route = 0)
    => LET mismatch == Match(1, 1, last.req, FALSE).mismatch
       IN  /\ (~mismatch /\ given.notFound = "custom")
                => last.w = customHandler(NewWriter)
           /\ (mismatch /\ given.methodNotAllowed = "custom")
                => last.w = customHandler(NewWriter)

(* ------------------------------- C19 ----------------------------------- *)
\* C19: the options restrict by their own value: a request a route accepts
\* is dispatched exactly when its host is the one given with WithHost (if
\* any) and its scheme the one given with WithScheme (if any).
C19_OptionsRestrictByOwnValue ==
    (last.served /\ \E n \in 1..Len(iroutes) : RouteAccepts(n, last.req))
    => (Dispatched <=>
           /\ given.host = "" \/ last.req.host = given.host
           /\ given.scheme = "" \/ last.req.scheme = given.scheme)

(* ------------------------------- C14 ----------------------------------- *)
\* what registration builds and dispatch reads
Registration ==
    <<middlewares, NotFoundHandler, MethodNotAllowedHandler, groups, arrays,
      routers, iroutes, host, scheme>>

\* the response one request alone gets from the routes as they stand
AloneResponse(sl) ==
    makeHttpHandler(iroutes[sl.route], sl.req, NilMw, sl.out, FALSE).w

\* C14: requests served concurrently do not interfere: each request in
\* flight has a Context of its own, which holds that request and is never
\* written for another one; the envelope a request gets is the one it
\* would get alone, a function of the request and of the registration
\* state; and no step of a dispatch changes the registration state.
C14_RequestsIsolated ==
    /\ [](\A i \in 1..MaxInFlight :
            inflight[i].pc # "idle" =>
               /\ contexts[inflight[i].ctx] = Context(inflight[i].req)
               /\ \A j \in 1..MaxInFlight :
                     (j # i /\ inflight[j].pc # "idle")
                        => inflight[j].ctx # inflight[i].ctx
               /\ inflight[i].pc = "written"
                     => inflight[i].w = AloneResponse(inflight[i]))
    /\ [][inflight' # inflight => Registration' = Registration]_vars

\* two different requests to the same static route were in flight together
\* and got different responses
C14_Witness ==
    /\ inflight[1].pc = "written"
    /\ inflight[2].pc = "written"
    /\ inflight[1].route = inflight[2].route
    /\ inflight[1].req # inflight[2].req
    /\ inflight[1].w # inflight[2].w
    /\ Len(middlewares) > 0
====
